---- MODULE Spec2Model ----
(***************************************************************************)
(* The frame cache of the backend (backend/src/decoder.rs) with its shared *)
(* completion handle (backend/src/future.rs) and the decoder adapter       *)
(* (backend/src/ffmpeg/hw_decoder.rs, backend/src/ffmpeg/command.rs).      *)
(*                                                                         *)
(* Byte counts are held in MiB: a frame of the modelled key is FrameMiB    *)
(* MiB long (a 512x512 RGBA frame is exactly 1 MiB), the floor of          *)
(* MAX_CACHE_SIZE is 1 MiB and its default 4096 MiB.  The usize counter    *)
(* ENTIRE_CACHE_SIZE is held by its representative r in (-2^63, 2^63): a   *)
(* negative r stands for the wrapped value 2^64 + r, and the comparisons   *)
(* of the code are the unsigned ones (ULt, UGe).                           *)
(***************************************************************************)
EXTENDS Integers, FiniteSets, Sequences, TLC

\* ------------------------------------------------------------ bounds
MaxDecoders == 2     \* CachedDecoders ever constructed (one key, re-created after clear)
MaxRequests == 2     \* frame requests served in one run
MaxReq == 2          \* largest frame index a client asks for
MaxReturned == 2     \* most frames ffmpeg yields for one window (the video ends)
MaxClears == 1       \* clear() calls in one run
MaxSetMax == 1       \* set_max_cache_size calls in one run
MaxGen == 2          \* handles ever created for one frame index of one decoder
FrameMiB == 1        \* payload length of one frame of the modelled key, in MiB

\* ------------------------------------------------- program constants
DECODE_CHUNK == 120
DefaultMaxCacheMiB == 4096
MinCacheMiB == 1

Callers == {"c1", "c2"}
FirstCaller == "c1"
Dec == 1..MaxDecoders
MaxIdx == MaxReq + MaxReturned
Idx == 0..MaxIdx
ReqIdx == 0..MaxReq
ClearReqIdx == {0, 1}   \* the indices asked for beside clear()
SetMaxArgs == {0, 2}

Min(a, b) == IF a < b THEN a ELSE b
Max(a, b) == IF a < b THEN b ELSE a

\* unsigned comparison of two usize values held by their representatives
ULt(a, b) == IF (a < 0) = (b < 0) THEN a < b ELSE b < 0
UGe(a, b) == ~ULt(a, b)

\* ------------------------------------------------------------ payloads
\* An Arc<Vec<u8>>: who allocated it.  Two payloads are the same reference
\* exactly when the records are equal.
NoValue == [kind |-> "none", d |-> 0, t |-> 0, idx |-> 0, by |-> ""]
WindowFrame(d, t, i) == [kind |-> "window", d |-> d, t |-> t, idx |-> i, by |-> ""]
RedecodeFrame(c) == [kind |-> "redecode", d |-> 0, t |-> 0, idx |-> 0, by |-> c]
EmptyFrame(c) == [kind |-> "empty", d |-> 0, t |-> 0, idx |-> 0, by |-> c]
\* every frame of the key is width * height * 4 bytes long
FrameLen(frame) == FrameMiB

VARIABLES
    map,                  \* Decoder.map: the decoders registered (one key is modelled)
    ndecoders,            \* CachedDecoders constructed so far
    frames,               \* Inner.frames: per decoder, index -> handle (0: no entry)
    handles,              \* per decoder and index, the handles created for it
    frame_states,         \* Inner.frame_states: per decoder, index -> None/Wait/Drop
    decoding_frames,      \* Inner.decoding_frames: per decoder, the claimed indices
    running_decode_tasks, \* Inner.running_decode_tasks
    ENTIRE_CACHE_SIZE,
    MAX_CACHE_SIZE,
    tasks,                \* per decoder, the window-decode tasks spawned, in order
    gc,                   \* per decoder, the sweeper task of schedule_gc
    caller,               \* the request handlers (cached_decoder, then get_frame)
    clr,                  \* the handler running clear()
    cleared,              \* what the last clear() left at the moment it returned
    nreq, nset,           \* requests and set_max_cache_size calls made
    fut, waiter, completer, \* a SharedManualFuture on its own (FutureSpec)
    lock, thread,         \* the locks of one CachedDecoder and the tasks taking them (LockSpec)
    adapter,              \* one call of the decoder adapter (AdapterSpec)
    phase_a               \* Phase A on a u32 frame index of its own (RangeSpec)

decoderVars == <<map, ndecoders, frames, handles, frame_states, decoding_frames,
                 running_decode_tasks, ENTIRE_CACHE_SIZE, MAX_CACHE_SIZE, tasks,
                 gc, caller, clr, cleared, nreq, nset>>
futureVars == <<fut, waiter, completer>>
lockVars == <<lock, thread>>
adapterVars == <<adapter>>
rangeVars == <<phase_a>>
\* what the actions of the frame cache, and those of the handle, leave alone
besideDecoder == <<futureVars, lockVars, adapterVars, rangeVars>>
besideFuture == <<decoderVars, lockVars, adapterVars, rangeVars>>
vars == <<decoderVars, futureVars, lockVars, adapterVars, rangeVars>>

\* ------------------------------------------------- SharedManualFuture
\* value: (Option<Arc<T>>, Vec<ManualFutureCompleter>): the completers are
\* kept as the set of their owners (a waiter that asks again after a
\* timeout leaves a completer of a dropped ManualFuture behind).
NewFuture == [value |-> NoValue, completers |-> {}]

is_completed(h) == h.value # NoValue

get_now(h) == h.value

\* get(): the handle afterwards, and the ManualFuture handed out
\* ("pending" or the value it was completed with)
FutureGetHandleNoPush(h, w) == h
FutureGetHandle(h, w) ==
    IF h.value # NoValue THEN h ELSE [h EXCEPT !.completers = @ \cup {w}]
FutureGetResult(h) == h.value

\* complete(), the part under the lock
CompleteIsNoopNever(h) == FALSE
CompleteIsNoop(h) == h.value # NoValue
FutureCompleteAlways(h, v) == [value |-> v, completers |-> {}]
FutureComplete(h, v) ==
    IF CompleteIsNoop(h) THEN h ELSE [value |-> v, completers |-> {}]
\* the completers complete() takes out of the handle and notifies afterwards
FutureTaken(h) == IF CompleteIsNoop(h) THEN {} ELSE h.completers

\* ------------------------------------------------------ decoder adapter
\* ffmpeg's trim filter passes the frames start_frame <= n < end_frame, fewer
\* when the video ends before (command.rs:24-27): how many is its choice
FfmpegYield(start_frame, end_frame) ==
    0..Min(MaxReturned, Max(0, end_frame - start_frame))

\* extract_frames_rgba: the number of frames kept of the y frames ffmpeg wrote
extract_frames_rgba(start_frame, end_frame, y) ==
    IF end_frame < start_frame THEN 0
    ELSE LET max_frames == end_frame - start_frame + 1
         IN  Min(y, max_frames)

\* extract_frame_window_hw_rgba: the number of (index, frame) pairs returned,
\* indexed start_frame, start_frame + 1, ...; an empty result is replaced by
\* one empty frame at start_frame
extract_frame_window_hw_rgba(start_frame, end_frame, y) ==
    LET end_exclusive == end_frame + 1
        n == extract_frames_rgba(start_frame, end_exclusive, y)
    IN  IF n = 0 THEN 1 ELSE n

\* the ffmpeg yields possible for the window [start_frame, end_frame]
WindowYieldsWide(start_frame, end_frame) == FfmpegYield(start_frame, end_frame + 2)
WindowYields(start_frame, end_frame) == FfmpegYield(start_frame, end_frame + 1)

\* --------------------------------------------------------------- Init
\* ov: the handlers whose call was under way when this one's began;
\* claimed: Phase A of this call claimed a range and spawned its window task;
\* snap: on entry to stall recovery, what the frames map held below idx
IdleCaller == [pc |-> "idle", dec |-> 0, idx |-> 0, fut |-> 0, w |-> 0,
               frame |-> NoValue, ov |-> {}, claimed |-> FALSE, snap |-> NoValue]
\* pre, pending, nd: the tasks spawned, the tasks not finished and the
\* decoders constructed when clear() swapped the map
IdleClear == [pc |-> "idle", removed |-> {}, pre |-> [d \in Dec |-> 0],
              pending |-> [d \in Dec |-> {}], nd |-> 0]
NoClear == [n |-> 0, cur |-> 0, map |-> {}, removed |-> {}, nd |-> 0]

FutureIdle ==
    /\ fut = NewFuture
    /\ waiter = <<>>
    /\ completer = <<>>

DecoderIdle ==
    /\ map = {}
    /\ ndecoders = 0
    /\ frames = [d \in Dec |-> [i \in Idx |-> 0]]
    /\ handles = [d \in Dec |-> [i \in Idx |-> <<>>]]
    /\ frame_states = [d \in Dec |-> [i \in Idx |-> "None"]]
    /\ decoding_frames = [d \in Dec |-> {}]
    /\ running_decode_tasks = [d \in Dec |-> 0]
    /\ ENTIRE_CACHE_SIZE = 0
    /\ MAX_CACHE_SIZE = DefaultMaxCacheMiB
    /\ tasks = [d \in Dec |-> <<>>]
    /\ gc = [d \in Dec |-> [pc |-> "off", todo |-> {}]]
    /\ caller = [c \in Callers |-> IdleCaller]
    /\ clr = IdleClear
    /\ cleared = NoClear
    /\ nreq = 0
    /\ nset = 0

LockIdle ==
    /\ lock = <<>>
    /\ thread = <<>>

AdapterIdle == adapter = <<>>

RangeIdle == phase_a = <<>>

Init ==
    /\ DecoderIdle
    /\ FutureIdle
    /\ LockIdle
    /\ AdapterIdle
    /\ RangeIdle

\* the frames lock is held across a whole sweep of the GC (decoder.rs:146)
FramesLocked(d) == gc[d].pc = "sweep"

\* the handlers inside get_frame
InFlight == {c \in Callers : caller[c].pc \notin {"idle", "done", "panicked"}}

\* ------------------------------------------------------------ registry
\* cached_decoder: entry(key).or_insert_with(CachedDecoder::new), and the
\* sweeper spawned by the creating call only
CachedDecoderFresh(m, n) == n + 1
CachedDecoderOf(m, n) == IF m = {} THEN n + 1 ELSE CHOOSE d \in m : TRUE

cached_decoder(c, i) ==
    /\ caller[c].pc \in {"idle", "done"}
    /\ nreq < MaxRequests
    /\ c = FirstCaller \/ nreq > 0   \* the handlers are interchangeable
    /\ map # {} \/ ndecoders < MaxDecoders
    /\ LET d == CachedDecoderOf(map, ndecoders)
           generated == map = {}
       IN  /\ map' = map \cup {d}
           /\ ndecoders' = IF generated THEN ndecoders + 1 ELSE ndecoders
           /\ gc' = IF generated THEN [gc EXCEPT ![d] = [pc |-> "sleep", todo |-> {}]]
                    ELSE gc
           /\ caller' = [o \in Callers |->
                            IF o = c
                            THEN [IdleCaller EXCEPT !.pc = "A", !.dec = d, !.idx = i,
                                                    !.ov = InFlight \ {c}]
                            ELSE [caller[o] EXCEPT !.ov = @ \ {c}]]
    /\ nreq' = nreq + 1
    /\ UNCHANGED <<frames, handles, frame_states, decoding_frames, running_decode_tasks,
                   ENTIRE_CACHE_SIZE, MAX_CACHE_SIZE, tasks, clr, cleared, nset>>
    /\ UNCHANGED besideDecoder

\* set_max_cache_size(bytes)
ClampNone(b) == b
ClampMax(b) == Max(b, MinCacheMiB)

set_max_cache_size(b) ==
    /\ nset < MaxSetMax
    /\ nset' = nset + 1
    /\ MAX_CACHE_SIZE' = ClampMax(b)
    /\ UNCHANGED <<map, ndecoders, frames, handles, frame_states, decoding_frames,
                   running_decode_tasks, ENTIRE_CACHE_SIZE, tasks, gc, caller, clr,
                   cleared, nreq>>
    /\ UNCHANGED besideDecoder

\* ------------------------------------------------- get_frame, Phase A
\* the last index of the range claimed from frame_index (decoder.rs:186-192)
LastFrameNoCheck(df, frame_index) == frame_index + DECODE_CHUNK - 1
LastFrameAtHit(df, frame_index) ==
    LET hit == {f \in frame_index..(frame_index + DECODE_CHUNK - 1) : f \in df}
    IN  IF hit = {} THEN frame_index + DECODE_CHUNK - 1
        ELSE CHOOSE f \in hit : \A g \in hit : f <= g
LastFrame(df, frame_index) ==
    LET hit == {f \in frame_index..(frame_index + DECODE_CHUNK - 1) : f \in df}
    IN  IF hit = {} THEN frame_index + DECODE_CHUNK - 1
        ELSE (CHOOSE f \in hit : \A g \in hit : f <= g) - 1

\* decoding_frames.contains(&frame_index) (decoder.rs:185)
ClaimedNever(df, frame_index) == FALSE
Claimed(df, frame_index) == frame_index \in df

\* decoding_frames.insert(frame_index) for frame_index..=last_frame
\* (decoder.rs:194-196)
ClaimedRangeOnly(df, frame_index, last_frame) == frame_index..last_frame
ClaimedRange(df, frame_index, last_frame) == df \cup (frame_index..last_frame)

NewTask(start, last) ==
    [pc |-> "decode", start |-> start, last |-> last, n |-> 0, k |-> 0,
     futs |-> <<>>, ntf |-> {}, err |-> FALSE]

PhaseA(c) ==
    /\ caller[c].pc = "A"
    /\ LET d == caller[c].dec
           frame_index == caller[c].idx
       IN  IF ~Claimed(decoding_frames[d], frame_index)
           THEN LET last_frame == LastFrame(decoding_frames[d], frame_index)
                IN  /\ decoding_frames' = [decoding_frames EXCEPT ![d] =
                                              ClaimedRange(@, frame_index, last_frame)]
                    /\ running_decode_tasks' = [running_decode_tasks EXCEPT ![d] = @ + 1]
                    /\ tasks' = [tasks EXCEPT ![d] =
                                    Append(@, NewTask(frame_index, last_frame))]
           ELSE UNCHANGED <<decoding_frames, running_decode_tasks, tasks>>
    /\ caller' = [caller EXCEPT ![c].pc = "B",
                                ![c].claimed = ~Claimed(decoding_frames[caller[c].dec],
                                                        caller[c].idx)]
    /\ UNCHANGED <<map, ndecoders, frames, handles, frame_states, ENTIRE_CACHE_SIZE,
                   MAX_CACHE_SIZE, gc, clr, cleared, nreq, nset>>
    /\ UNCHANGED besideDecoder

\* ------------------------------------------------- get_frame, Phase D
RetainedNever(frame_index) == FALSE
Retained(frame_index) == frame_index = 0

\* the caller holds its frame: Phase D has nothing to do for index 0 and the
\* frame is returned, else the caller goes on to the fetch_sub
Deliver(cr, frame) ==
    IF Retained(cr.idx)
    THEN [cr EXCEPT !.pc = "done", !.frame = frame, !.fut = 0, !.w = 0]
    ELSE [cr EXCEPT !.pc = "D", !.frame = frame, !.fut = 0, !.w = 0]

\* ENTIRE_CACHE_SIZE.fetch_sub(frame.len())
PhaseDSub(c) ==
    /\ caller[c].pc = "D"
    /\ ENTIRE_CACHE_SIZE' = ENTIRE_CACHE_SIZE - FrameLen(caller[c].frame)
    /\ caller' = [caller EXCEPT ![c].pc = "D_rm"]
    /\ UNCHANGED <<map, ndecoders, frames, handles, frame_states, decoding_frames,
                   running_decode_tasks, MAX_CACHE_SIZE, tasks, gc, clr, cleared, nreq,
                   nset>>
    /\ UNCHANGED besideDecoder

\* frames.write().remove(&frame_index), then the frame is returned
PhaseDRemove(c) ==
    /\ caller[c].pc = "D_rm"
    /\ ~FramesLocked(caller[c].dec)
    /\ frames' = [frames EXCEPT ![caller[c].dec][caller[c].idx] = 0]
    /\ caller' = [caller EXCEPT ![c].pc = "done"]
    /\ UNCHANGED <<map, ndecoders, handles, frame_states, decoding_frames,
                   running_decode_tasks, ENTIRE_CACHE_SIZE, MAX_CACHE_SIZE, tasks, gc,
                   clr, cleared, nreq, nset>>
    /\ UNCHANGED besideDecoder

\* ------------------------------------------ get_frame, the window task
\* the frame index of the k-th pair (from 0) of a window result
PairIdxStart(task, k) == task.start
PairIdx(task, k) == task.start + k

\* or_insert_with(SharedManualFuture::new) on the entries of a set of indices:
\* the handles afterwards, and the frames map afterwards
InsertedHandles(hs, fr, ids) ==
    [i \in Idx |-> IF i \in ids /\ fr[i] = 0 THEN Append(hs[i], NewFuture) ELSE hs[i]]
InsertedFrames(hs, fr, ids) ==
    [i \in Idx |-> IF i \in ids /\ fr[i] = 0 THEN Len(hs[i]) + 1 ELSE fr[i]]
CanInsert(hs, fr, ids) ==
    \A i \in ids : i \in Idx /\ (fr[i] = 0 => Len(hs[i]) < MaxGen)

\* the adapter call of the task fails: Err(_) => todo!() panics, the task ends
\* there and the counter is not decremented
WindowDecodeErr(d, t) ==
    /\ tasks[d][t].pc = "decode"
    /\ tasks' = [tasks EXCEPT ![d][t].pc = "panicked", ![d][t].err = TRUE]
    /\ UNCHANGED <<map, ndecoders, frames, handles, frame_states, decoding_frames,
                   running_decode_tasks, ENTIRE_CACHE_SIZE, MAX_CACHE_SIZE, gc, caller,
                   clr, cleared, nreq, nset>>
    /\ UNCHANGED besideDecoder

\* the adapter call succeeds with n pairs; the handles of their indices are
\* fetched or created under the frames write lock (decoder.rs:215-228)
WindowDecodeOk(d, t) ==
    /\ tasks[d][t].pc = "decode"
    /\ ~FramesLocked(d)
    /\ \E y \in WindowYields(tasks[d][t].start, tasks[d][t].last) :
          LET n == extract_frame_window_hw_rgba(tasks[d][t].start, tasks[d][t].last, y)
              ids == {PairIdx(tasks[d][t], k) : k \in 0..(n - 1)}
              fr == InsertedFrames(handles[d], frames[d], ids)
          IN  /\ CanInsert(handles[d], frames[d], ids)
              /\ handles' = [handles EXCEPT ![d] = InsertedHandles(@, frames[d], ids)]
              /\ frames' = [frames EXCEPT ![d] = fr]
              /\ tasks' = [tasks EXCEPT ![d][t].pc = "add", ![d][t].n = n,
                                        ![d][t].k = 0,
                                        ![d][t].futs =
                                            [k \in 1..n |-> fr[PairIdx(tasks[d][t], k - 1)]]]
    /\ UNCHANGED <<map, ndecoders, frame_states, decoding_frames, running_decode_tasks,
                   ENTIRE_CACHE_SIZE, MAX_CACHE_SIZE, gc, caller, clr, cleared, nreq,
                   nset>>
    /\ UNCHANGED besideDecoder

\* ENTIRE_CACHE_SIZE.fetch_add(frame.len()) for the next pair
WindowAdd(d, t) ==
    /\ tasks[d][t].pc = "add"
    /\ ENTIRE_CACHE_SIZE' = ENTIRE_CACHE_SIZE + FrameLen(tasks[d][t])
    /\ tasks' = [tasks EXCEPT ![d][t].pc = "complete"]
    /\ UNCHANGED <<map, ndecoders, frames, handles, frame_states, decoding_frames,
                   running_decode_tasks, MAX_CACHE_SIZE, gc, caller, clr, cleared, nreq,
                   nset>>
    /\ UNCHANGED besideDecoder

AfterPair(task) ==
    IF task.k + 1 < task.n THEN [task EXCEPT !.pc = "add", !.k = @ + 1, !.ntf = {}]
    ELSE [task EXCEPT !.pc = "dec", !.ntf = {}]

\* future.complete(Arc::new(frame)), the part under the handle's lock
WindowComplete(d, t) ==
    /\ tasks[d][t].pc = "complete"
    /\ LET task == tasks[d][t]
           i == PairIdx(task, task.k)
           g == task.futs[task.k + 1]
           h == handles[d][i][g]
           taken == FutureTaken(h)
       IN  /\ handles' = [handles EXCEPT ![d][i][g] = FutureComplete(h, WindowFrame(d, t, i))]
           /\ tasks' = [tasks EXCEPT ![d][t] =
                           IF taken = {} THEN AfterPair(task)
                           ELSE [task EXCEPT !.pc = "notify", !.ntf = taken]]
    /\ UNCHANGED <<map, ndecoders, frames, frame_states, decoding_frames,
                   running_decode_tasks, ENTIRE_CACHE_SIZE, MAX_CACHE_SIZE, gc, caller,
                   clr, cleared, nreq, nset>>
    /\ UNCHANGED besideDecoder

\* completer.complete(value) for one of the completers taken (future.rs:63-65):
\* the ManualFuture of a caller still awaiting this handle becomes ready, the
\* timeout yields Ok(result) and the caller holds its frame
WindowNotify(d, t, c) ==
    /\ tasks[d][t].pc = "notify"
    /\ c \in tasks[d][t].ntf
    /\ LET task == tasks[d][t]
           i == PairIdx(task, task.k)
           g == task.futs[task.k + 1]
           listening == /\ caller[c].pc = "await"
                        /\ caller[c].dec = d /\ caller[c].idx = i /\ caller[c].fut = g
       IN  /\ caller' = IF listening
                        THEN [caller EXCEPT ![c] = Deliver(@, WindowFrame(d, t, i))]
                        ELSE caller
           /\ tasks' = [tasks EXCEPT ![d][t] =
                           IF task.ntf = {c} THEN AfterPair(task)
                           ELSE [task EXCEPT !.ntf = @ \ {c}]]
    /\ UNCHANGED <<map, ndecoders, frames, handles, frame_states, decoding_frames,
                   running_decode_tasks, ENTIRE_CACHE_SIZE, MAX_CACHE_SIZE, gc, clr,
                   cleared, nreq, nset>>
    /\ UNCHANGED besideDecoder

\* running_decode_tasks.fetch_sub(1), the last statement of the task
WindowFinish(d, t) ==
    /\ tasks[d][t].pc = "dec"
    /\ running_decode_tasks' = [running_decode_tasks EXCEPT ![d] = @ - 1]
    /\ tasks' = [tasks EXCEPT ![d][t].pc = "finished"]
    /\ UNCHANGED <<map, ndecoders, frames, handles, frame_states, decoding_frames,
                   ENTIRE_CACHE_SIZE, MAX_CACHE_SIZE, gc, caller, clr, cleared, nreq,
                   nset>>
    /\ UNCHANGED besideDecoder

\* ------------------------------------------------- get_frame, Phase B
NeedsRedecodeDropOnly(frame_state) == frame_state = "Drop"
NeedsRedecode(frame_state) == frame_state \in {"Drop", "Wait"}

\* the state of the index is read and set to Wait under the frame_states
\* lock; the prior state None leads on to Phase C
PhaseB(c) ==
    /\ caller[c].pc = "B"
    /\ ~NeedsRedecode(frame_states[caller[c].dec][caller[c].idx])
    /\ frame_states' = [frame_states EXCEPT ![caller[c].dec][caller[c].idx] = "Wait"]
    /\ caller' = [caller EXCEPT ![c].pc = "C"]
    /\ UNCHANGED <<map, ndecoders, frames, handles, decoding_frames,
                   running_decode_tasks, ENTIRE_CACHE_SIZE, MAX_CACHE_SIZE, tasks, gc,
                   clr, cleared, nreq, nset>>
    /\ UNCHANGED besideDecoder

\* the prior state Wait or Drop: extract_frame_hw_rgba is called and succeeds,
\* return Arc::new(result)
RedecodeOk(c) ==
    /\ caller[c].pc = "B"
    /\ NeedsRedecode(frame_states[caller[c].dec][caller[c].idx])
    /\ frame_states' = [frame_states EXCEPT ![caller[c].dec][caller[c].idx] = "Wait"]
    /\ caller' = [caller EXCEPT ![c].pc = "done", ![c].frame = RedecodeFrame(c)]
    /\ UNCHANGED <<map, ndecoders, frames, handles, decoding_frames,
                   running_decode_tasks, ENTIRE_CACHE_SIZE, MAX_CACHE_SIZE, tasks, gc,
                   clr, cleared, nreq, nset>>
    /\ UNCHANGED besideDecoder

\* the prior state Wait or Drop and extract_frame_hw_rgba fails:
\* Err(_) => todo!() panics in the caller
RedecodeErr(c) ==
    /\ caller[c].pc = "B"
    /\ NeedsRedecode(frame_states[caller[c].dec][caller[c].idx])
    /\ frame_states' = [frame_states EXCEPT ![caller[c].dec][caller[c].idx] = "Wait"]
    /\ caller' = [caller EXCEPT ![c].pc = "panicked"]
    /\ UNCHANGED <<map, ndecoders, frames, handles, decoding_frames,
                   running_decode_tasks, ENTIRE_CACHE_SIZE, MAX_CACHE_SIZE, tasks, gc,
                   clr, cleared, nreq, nset>>
    /\ UNCHANGED besideDecoder

\* ------------------------------------------------- get_frame, Phase C
\* frames.entry(frame_index).or_insert_with(SharedManualFuture::new).clone()
PhaseC(c) ==
    /\ caller[c].pc = "C"
    /\ LET d == caller[c].dec
           i == caller[c].idx
           fr == InsertedFrames(handles[d], frames[d], {i})
       IN  /\ ~FramesLocked(d)
           /\ CanInsert(handles[d], frames[d], {i})
           /\ handles' = [handles EXCEPT ![d] = InsertedHandles(@, frames[d], {i})]
           /\ frames' = [frames EXCEPT ![d] = fr]
           /\ caller' = [caller EXCEPT ![c].pc = "get", ![c].fut = fr[i]]
    /\ UNCHANGED <<map, ndecoders, frame_states, decoding_frames, running_decode_tasks,
                   ENTIRE_CACHE_SIZE, MAX_CACHE_SIZE, tasks, gc, clr, cleared, nreq,
                   nset>>
    /\ UNCHANGED besideDecoder

\* timeout(1 s, future.get()): get() hands out a ready ManualFuture, and the
\* timeout yields Ok(result), or it registers a completer and the caller waits
FutureGet(c) ==
    /\ caller[c].pc = "get"
    /\ LET d == caller[c].dec
           i == caller[c].idx
           g == caller[c].fut
           h == handles[d][i][g]
       IN  /\ handles' = [handles EXCEPT ![d][i][g] = FutureGetHandle(h, c)]
           /\ caller' = [caller EXCEPT ![c] =
                            IF FutureGetResult(h) # NoValue
                            THEN Deliver(@, FutureGetResult(h))
                            ELSE [@ EXCEPT !.pc = "await"]]
    /\ UNCHANGED <<map, ndecoders, frames, frame_states, decoding_frames,
                   running_decode_tasks, ENTIRE_CACHE_SIZE, MAX_CACHE_SIZE, tasks, gc,
                   clr, cleared, nreq, nset>>
    /\ UNCHANGED besideDecoder

\* Err(_): one second passed with the ManualFuture still pending
AwaitTimeout(c) ==
    /\ caller[c].pc = "await"
    /\ caller' = [caller EXCEPT ![c].pc = "timedout"]
    /\ UNCHANGED <<map, ndecoders, frames, handles, frame_states, decoding_frames,
                   running_decode_tasks, ENTIRE_CACHE_SIZE, MAX_CACHE_SIZE, tasks, gc,
                   clr, cleared, nreq, nset>>
    /\ UNCHANGED besideDecoder

\* running_decode_tasks.load() > 0: true => continue, false => stall recovery
StillRunning(n) == n > 0

\* the walk back starts at frame_index; checked_sub(1) of 0 ends it with the
\* empty frame (decoder.rs:303, 320-326)
StallFrom(cr, c, w) ==
    IF w = 0 THEN Deliver(cr, EmptyFrame(c)) ELSE [cr EXCEPT !.pc = "stall", !.w = w]

\* the payload of the largest index below frame_index with a resolved handle
\* in the frames map, the empty frame if there is none
ResolvedBelow(d, frame_index) ==
    {j \in Idx : j < frame_index /\ frames[d][j] # 0
                 /\ is_completed(handles[d][j][frames[d][j]])}
NearestBelow(d, frame_index, c) ==
    LET below == ResolvedBelow(d, frame_index)
    IN  IF below = {} THEN EmptyFrame(c)
        ELSE LET j == CHOOSE j \in below : \A k \in below : k <= j
             IN  get_now(handles[d][j][frames[d][j]])

CheckRunning(c) ==
    /\ caller[c].pc = "timedout"
    /\ caller' = [caller EXCEPT ![c] =
                     IF StillRunning(running_decode_tasks[caller[c].dec])
                     THEN [@ EXCEPT !.pc = "get"]
                     ELSE StallFrom([@ EXCEPT !.snap = NearestBelow(caller[c].dec,
                                                                    caller[c].idx, c)],
                                    c, caller[c].idx)]
    /\ UNCHANGED <<map, ndecoders, frames, handles, frame_states, decoding_frames,
                   running_decode_tasks, ENTIRE_CACHE_SIZE, MAX_CACHE_SIZE, tasks, gc,
                   clr, cleared, nreq, nset>>
    /\ UNCHANGED besideDecoder

\* one round of the walk back (decoder.rs:304-318): the probe of the frames
\* map at the index below, under the read lock
StallProbeNever(d, i) == NoValue
StallProbe(d, i) ==
    IF frames[d][i] # 0 THEN get_now(handles[d][i][frames[d][i]]) ELSE NoValue

StallStep(c) ==
    /\ caller[c].pc = "stall"
    /\ ~FramesLocked(caller[c].dec)
    /\ LET new_index == caller[c].w - 1
           found == StallProbe(caller[c].dec, new_index)
       IN  caller' = [caller EXCEPT ![c] =
                         IF found # NoValue THEN Deliver(@, found)
                         ELSE StallFrom(@, c, new_index)]
    /\ UNCHANGED <<map, ndecoders, frames, handles, frame_states, decoding_frames,
                   running_decode_tasks, ENTIRE_CACHE_SIZE, MAX_CACHE_SIZE, tasks, gc,
                   clr, cleared, nreq, nset>>
    /\ UNCHANGED besideDecoder

\* ------------------------------------------------------ the GC sweeper
\* the sweeper wakes over budget, takes the frames write lock and snapshots
\* the keys (decoder.rs:143-148)
OverBudgetAlways(cur, max) == TRUE
OverBudget(cur, max) == UGe(cur, max)

Keys(d) == {i \in Idx : frames[d][i] # 0}

GCWake(d) ==
    /\ gc[d].pc = "sleep"
    /\ OverBudget(ENTIRE_CACHE_SIZE, MAX_CACHE_SIZE)
    /\ Keys(d) # {}
    /\ gc' = [gc EXCEPT ![d] = [pc |-> "sweep", todo |-> Keys(d)]]
    /\ UNCHANGED <<map, ndecoders, frames, handles, frame_states, decoding_frames,
                   running_decode_tasks, ENTIRE_CACHE_SIZE, MAX_CACHE_SIZE, tasks,
                   caller, clr, cleared, nreq, nset>>
    /\ UNCHANGED besideDecoder

\* the test of one round of the sweep (decoder.rs:158)
EvictableAnyState(h, frame_state) == is_completed(h)
Evictable(h, frame_state) == is_completed(h) /\ frame_state = "None"

\* one round of the sweep; the keys of a HashMap come in no particular order
GCVisit(d, i) ==
    /\ gc[d].pc = "sweep"
    /\ i \in gc[d].todo
    /\ LET h == handles[d][i][frames[d][i]]
           rest == gc[d].todo \ {i}
           cur == ENTIRE_CACHE_SIZE - FrameLen(get_now(h))
       IN  IF Evictable(h, frame_states[d][i])
           THEN /\ frames' = [frames EXCEPT ![d][i] = 0]
                /\ frame_states' = [frame_states EXCEPT ![d][i] = "Drop"]
                /\ ENTIRE_CACHE_SIZE' = cur
                /\ gc' = [gc EXCEPT ![d] =
                             IF ULt(cur, MAX_CACHE_SIZE) \/ rest = {}
                             THEN [pc |-> "sleep", todo |-> {}]
                             ELSE [pc |-> "sweep", todo |-> rest]]
           ELSE /\ gc' = [gc EXCEPT ![d] =
                             IF rest = {} THEN [pc |-> "sleep", todo |-> {}]
                             ELSE [pc |-> "sweep", todo |-> rest]]
                /\ UNCHANGED <<frames, frame_states, ENTIRE_CACHE_SIZE>>
    /\ UNCHANGED <<map, ndecoders, handles, decoding_frames, running_decode_tasks,
                   MAX_CACHE_SIZE, tasks, caller, clr, cleared, nreq, nset>>
    /\ UNCHANGED besideDecoder

\* -------------------------------------------------------------- clear()
\* std::mem::swap of the registry map with an empty one (decoder.rs:48-55)
ClearSwap ==
    /\ clr.pc = "idle"
    /\ cleared.n < MaxClears
    /\ clr' = [pc |-> "poll", removed |-> map,
               pre |-> [d \in Dec |-> IF d \in map THEN Len(tasks[d]) ELSE 0],
               pending |-> [d \in Dec |->
                               IF d \in map
                               THEN {t \in 1..Len(tasks[d]) : tasks[d][t].pc # "finished"}
                               ELSE {}],
               nd |-> ndecoders]
    /\ map' = {}
    /\ UNCHANGED <<ndecoders, frames, handles, frame_states, decoding_frames,
                   running_decode_tasks, ENTIRE_CACHE_SIZE, MAX_CACHE_SIZE, tasks, gc,
                   caller, cleared, nreq, nset>>
    /\ UNCHANGED besideDecoder

\* one pass of the poll loop that finds every removed decoder drained
DrainedAlways(removed) == TRUE
Drained(removed) == \A d \in removed : ~(running_decode_tasks[d] > 0)

ClearPoll ==
    /\ clr.pc = "poll"
    /\ Drained(clr.removed)
    /\ clr' = [clr EXCEPT !.pc = "store"]
    /\ UNCHANGED <<map, ndecoders, frames, handles, frame_states, decoding_frames,
                   running_decode_tasks, ENTIRE_CACHE_SIZE, MAX_CACHE_SIZE, tasks, gc,
                   caller, cleared, nreq, nset>>
    /\ UNCHANGED besideDecoder

\* ENTIRE_CACHE_SIZE.store(0), and clear() returns
Stored(cur) == 0

ClearStore ==
    /\ clr.pc = "store"
    /\ ENTIRE_CACHE_SIZE' = Stored(ENTIRE_CACHE_SIZE)
    /\ cleared' = [n |-> cleared.n + 1, cur |-> Stored(ENTIRE_CACHE_SIZE), map |-> map,
                   removed |-> clr.removed, nd |-> clr.nd]
    /\ clr' = IdleClear
    /\ UNCHANGED <<map, ndecoders, frames, handles, frame_states, decoding_frames,
                   running_decode_tasks, MAX_CACHE_SIZE, tasks, gc, caller, nreq, nset>>
    /\ UNCHANGED besideDecoder

\* ---------------------------------------------------- the specification
TaskIds(d) == 1..Len(tasks[d])

\* the frame cache at work: requests, window tasks, the sweepers and the
\* capacity setter
Next ==
    \/ \E c \in Callers, i \in ReqIdx : cached_decoder(c, i)
    \/ \E b \in SetMaxArgs : set_max_cache_size(b)
    \/ \E c \in Callers : PhaseA(c)
    \/ \E c \in Callers : PhaseB(c)
    \/ \E c \in Callers : RedecodeOk(c)
    \/ \E c \in Callers : RedecodeErr(c)
    \/ \E c \in Callers : PhaseC(c)
    \/ \E c \in Callers : FutureGet(c)
    \/ \E c \in Callers : AwaitTimeout(c)
    \/ \E c \in Callers : CheckRunning(c)
    \/ \E c \in Callers : StallStep(c)
    \/ \E c \in Callers : PhaseDSub(c)
    \/ \E c \in Callers : PhaseDRemove(c)
    \/ \E d \in Dec : \E t \in TaskIds(d) : WindowDecodeErr(d, t)
    \/ \E d \in Dec : \E t \in TaskIds(d) : WindowDecodeOk(d, t)
    \/ \E d \in Dec : \E t \in TaskIds(d) : WindowAdd(d, t)
    \/ \E d \in Dec : \E t \in TaskIds(d) : WindowComplete(d, t)
    \/ \E d \in Dec : \E t \in TaskIds(d) : \E c \in Callers : WindowNotify(d, t, c)
    \/ \E d \in Dec : \E t \in TaskIds(d) : WindowFinish(d, t)
    \/ \E d \in Dec : GCWake(d)
    \/ \E d \in Dec : \E i \in Idx : GCVisit(d, i)

Spec == Init /\ [][Next]_vars

\* the same with clear() running beside it
ClearNext ==
    \/ \E c \in Callers, i \in ClearReqIdx : cached_decoder(c, i)
    \/ \E c \in Callers : PhaseA(c)
    \/ \E c \in Callers : PhaseB(c)
    \/ \E c \in Callers : RedecodeOk(c)
    \/ \E c \in Callers : RedecodeErr(c)
    \/ \E c \in Callers : PhaseC(c)
    \/ \E c \in Callers : FutureGet(c)
    \/ \E c \in Callers : AwaitTimeout(c)
    \/ \E c \in Callers : CheckRunning(c)
    \/ \E c \in Callers : StallStep(c)
    \/ \E c \in Callers : PhaseDSub(c)
    \/ \E c \in Callers : PhaseDRemove(c)
    \/ \E d \in Dec : \E t \in TaskIds(d) : WindowDecodeErr(d, t)
    \/ \E d \in Dec : \E t \in TaskIds(d) : WindowDecodeOk(d, t)
    \/ \E d \in Dec : \E t \in TaskIds(d) : WindowAdd(d, t)
    \/ \E d \in Dec : \E t \in TaskIds(d) : WindowComplete(d, t)
    \/ \E d \in Dec : \E t \in TaskIds(d) : \E c \in Callers : WindowNotify(d, t, c)
    \/ \E d \in Dec : \E t \in TaskIds(d) : WindowFinish(d, t)
    \/ \E d \in Dec : GCWake(d)
    \/ \E d \in Dec : \E i \in Idx : GCVisit(d, i)
    \/ ClearSwap
    \/ ClearPoll
    \/ ClearStore

ClearSpec == Init /\ [][ClearNext]_vars

\* ------------------------------------- a SharedManualFuture on its own
\* Clones of one handle in the hands of waiters, which call get() and await
\* the ManualFuture, or poll get_now(), and of completers, which call
\* complete() each with a buffer of its own.
Waiters == {"w1", "w2", "w3"}
Completers == {"p1", "p2"}
ValueOf(p) == [kind |-> "value", d |-> 0, t |-> 0, idx |-> 0, by |-> p]

FutureInit ==
    /\ DecoderIdle
    /\ LockIdle
    /\ AdapterIdle
    /\ RangeIdle
    /\ fut = NewFuture
    /\ waiter = [w \in Waiters |-> [pc |-> "idle", got |-> NoValue, via |-> ""]]
    /\ completer = [p \in Completers |-> [pc |-> "idle", ntf |-> {}, stored |-> FALSE]]

\* get(): a ready ManualFuture, or a completer pushed (future.rs:34-45)
WaiterGet(w) ==
    /\ waiter[w].pc = "idle"
    /\ fut' = FutureGetHandle(fut, w)
    /\ waiter' = [waiter EXCEPT ![w] =
                     IF FutureGetResult(fut) # NoValue
                     THEN [pc |-> "done", got |-> FutureGetResult(fut), via |-> "get"]
                     ELSE [@ EXCEPT !.pc = "await"]]
    /\ UNCHANGED completer
    /\ UNCHANGED besideFuture

\* get_now() that finds the value (future.rs:30-32)
WaiterGetNow(w) ==
    /\ waiter[w].pc = "idle"
    /\ get_now(fut) # NoValue
    /\ waiter' = [waiter EXCEPT ![w] = [pc |-> "done", got |-> get_now(fut),
                                        via |-> "get_now"]]
    /\ UNCHANGED <<fut, completer>>
    /\ UNCHANGED besideFuture

\* complete(), the part under the lock (future.rs:48-61)
CompleterLock(p) ==
    /\ completer[p].pc = "idle"
    /\ fut' = FutureComplete(fut, ValueOf(p))
    /\ completer' = [completer EXCEPT ![p] =
                        [pc |-> IF FutureTaken(fut) = {} THEN "done" ELSE "notify",
                         ntf |-> FutureTaken(fut),
                         stored |-> FutureComplete(fut, ValueOf(p)).value # fut.value]]
    /\ UNCHANGED waiter
    /\ UNCHANGED besideFuture

\* completer.complete(arc_complete_value.clone()) for one completer taken
\* (future.rs:63-65)
CompleterNotify(p, w) ==
    /\ completer[p].pc = "notify"
    /\ w \in completer[p].ntf
    /\ waiter' = [waiter EXCEPT ![w] =
                     IF @.pc = "await"
                     THEN [pc |-> "done", got |-> ValueOf(p), via |-> "notified"]
                     ELSE @]
    /\ completer' = [completer EXCEPT ![p] =
                        IF @.ntf = {w} THEN [@ EXCEPT !.pc = "done", !.ntf = {}]
                        ELSE [@ EXCEPT !.ntf = @ \ {w}]]
    /\ UNCHANGED fut
    /\ UNCHANGED besideFuture

FutureNext ==
    \/ \E w \in Waiters : WaiterGet(w)
    \/ \E w \in Waiters : WaiterGetNow(w)
    \/ \E p \in Completers : CompleterLock(p)
    \/ \E p \in Completers, w \in Waiters : CompleterNotify(p, w)

FutureSpec == FutureInit /\ [][FutureNext]_vars

\* the frame cache under fair scheduling: every handler and every task that
\* can take a step takes one, every adapter call returns, and the sweeper
\* ends its sweeps; requests come to an end (MaxRequests)
CallerStep(c) ==
    \/ PhaseA(c) \/ PhaseB(c) \/ RedecodeOk(c) \/ RedecodeErr(c) \/ PhaseC(c)
    \/ FutureGet(c) \/ AwaitTimeout(c) \/ CheckRunning(c) \/ StallStep(c)
    \/ PhaseDSub(c) \/ PhaseDRemove(c)

TaskStep(d, t) ==
    /\ t \in TaskIds(d)
    /\ \/ WindowDecodeErr(d, t) \/ WindowDecodeOk(d, t) \/ WindowAdd(d, t)
       \/ WindowComplete(d, t) \/ WindowFinish(d, t)
       \/ \E c \in Callers : WindowNotify(d, t, c)

GCStep(d) == \E i \in Idx : GCVisit(d, i)

Fairness ==
    /\ \A c \in Callers : SF_vars(CallerStep(c))
    /\ \A d \in Dec : \A t \in 1..MaxRequests : SF_vars(TaskStep(d, t))
    /\ \A d \in Dec : WF_vars(GCStep(d))

LiveSpec == Init /\ [][Next]_vars /\ Fairness

\* ------------------------------------------- the locks of a CachedDecoder
\* Inner.decoding_frames (a Mutex), Inner.frames and Inner.frame_states
\* (RwLocks) and the Mutex inside a SharedManualFuture ("value"), and the
\* order in which get_frame, the window task and the sweeper take and drop
\* their guards.  What a task does between two lock operations is left out;
\* where the code branches on data, both ways are open.
LockNames == {"decoding_frames", "frames", "frame_states", "value"}
LockThreads == {"c1", "c2", "task", "gc"}

Acq(l, m) == [op |-> "acq", l |-> l, m |-> m, to |-> {}]
Rel(l) == [op |-> "rel", l |-> l, m |-> "", to |-> {}]
Jmp(to) == [op |-> "jmp", l |-> "", m |-> "", to |-> to]

\* get_frame with the frame_states guard of Phase B kept until Phase C is over
get_frame_locks_held ==
    << Acq("decoding_frames", "w"), Rel("decoding_frames"),
       Acq("frame_states", "w"), Jmp({5, 22}),
       Acq("frames", "w"), Rel("frames"), Rel("frame_states"),
       Acq("value", "w"), Rel("value"), Jmp({8, 11, 18}),
       Jmp({12, 18}), Acq("frames", "r"), Jmp({14, 16}),
       Acq("value", "w"), Rel("value"), Rel("frames"), Jmp({11, 18}),
       Jmp({19, 21}), Acq("frames", "w"), Rel("frames"), Jmp({1}),
       Rel("frame_states"), Jmp({1}) >>

\* get_frame (decoder.rs:179-350)
get_frame_locks ==
    << Acq("decoding_frames", "w"),  \*  1  Phase A (decoder.rs:181)
       Rel("decoding_frames"),       \*  2  (decoder.rs:245)
       Acq("frame_states", "w"),     \*  3  Phase B (decoder.rs:249)
       Rel("frame_states"),          \*  4  (decoder.rs:259)
       Jmp({6, 21}),                 \*  5  on to Phase C, or the re-decode returns
       Acq("frames", "w"),           \*  6  Phase C (decoder.rs:279)
       Rel("frames"),                \*  7  (decoder.rs:285)
       Acq("value", "w"),            \*  8  future.get() (future.rs:35)
       Rel("value"),                 \*  9  (future.rs:45)
       Jmp({8, 11, 18}),             \* 10  continue, stall recovery, or the frame
       Jmp({12, 18}),                \* 11  checked_sub(1): Some, or None
       Acq("frames", "r"),           \* 12  (decoder.rs:307)
       Jmp({14, 16}),                \* 13  frames.get: Some(future), or None
       Acq("value", "w"),            \* 14  get_now() (future.rs:31)
       Rel("value"),                 \* 15
       Rel("frames"),                \* 16  the read guard goes with the round
       Jmp({11, 18}),                \* 17  continue, or break with the frame
       Jmp({19, 21}),                \* 18  Phase D: frame_index != 0
       Acq("frames", "w"),           \* 19  (decoder.rs:345)
       Rel("frames"),                \* 20
       Jmp({1}) >>                   \* 21  returned; the handler's next request

\* the window task (decoder.rs:204-243)
window_task_locks ==
    << Jmp({2, 7}),                  \* 1  the adapter call: Ok, or Err and todo!()
       Acq("frames", "w"),           \* 2  (decoder.rs:216)
       Rel("frames"),                \* 3  (decoder.rs:228)
       Acq("value", "w"),            \* 4  complete() (future.rs:49)
       Rel("value"),                 \* 5  (future.rs:61)
       Jmp({4, 7}),                  \* 6  the next pair, or the end
       Jmp({1}) >>                   \* 7  the next window task

\* the sweeper (decoder.rs:141-176)
schedule_gc_locks ==
    << Jmp({2}),                     \*  1  asleep, then over budget (decoder.rs:143)
       Acq("frames", "w"),           \*  2  (decoder.rs:146)
       Jmp({4, 12}),                 \*  3  the next key, or the sweep is over
       Acq("frame_states", "w"),     \*  4  (decoder.rs:152)
       Acq("value", "w"),            \*  5  is_completed() (future.rs:27)
       Rel("value"),                 \*  6
       Jmp({8, 10}),                 \*  7  evict, or leave it
       Acq("value", "w"),            \*  8  get_now() (decoder.rs:163)
       Rel("value"),                 \*  9
       Rel("frame_states"),          \* 10  the guard goes with the round
       Jmp({3, 12}),                 \* 11  on, or break under budget
       Rel("frames"),                \* 12  (decoder.rs:172)
       Jmp({1}) >>                   \* 13  sleep(5 s)

LockProgram(t) ==
    IF t \in {"c1", "c2"} THEN get_frame_locks
    ELSE IF t = "task" THEN window_task_locks
    ELSE schedule_gc_locks

OpAt(t) == LockProgram(t)[thread[t].pc]

\* a write guard needs the lock free, a read guard needs it free of a writer
LockFree(l, m) ==
    IF m = "w" THEN lock[l].writer = "" /\ lock[l].readers = {}
    ELSE lock[l].writer = ""

Held(t) == {l \in LockNames : lock[l].writer = t \/ t \in lock[l].readers}

LockInit ==
    /\ DecoderIdle
    /\ FutureIdle
    /\ AdapterIdle
    /\ RangeIdle
    /\ lock = [l \in LockNames |-> [writer |-> "", readers |-> {}]]
    /\ thread = [t \in LockThreads |-> [pc |-> 1]]

LockAcquire(t) ==
    /\ OpAt(t).op = "acq"
    /\ LockFree(OpAt(t).l, OpAt(t).m)
    /\ lock' = [lock EXCEPT ![OpAt(t).l] =
                   IF OpAt(t).m = "w" THEN [@ EXCEPT !.writer = t]
                   ELSE [@ EXCEPT !.readers = @ \cup {t}]]
    /\ thread' = [thread EXCEPT ![t].pc = @ + 1]
    /\ UNCHANGED <<decoderVars, futureVars, adapterVars, rangeVars>>

LockRelease(t) ==
    /\ OpAt(t).op = "rel"
    /\ lock' = [lock EXCEPT ![OpAt(t).l] =
                   [writer |-> IF @.writer = t THEN "" ELSE @.writer,
                    readers |-> @.readers \ {t}]]
    /\ thread' = [thread EXCEPT ![t].pc = @ + 1]
    /\ UNCHANGED <<decoderVars, futureVars, adapterVars, rangeVars>>

LockBranch(t) ==
    /\ OpAt(t).op = "jmp"
    /\ \E n \in OpAt(t).to : thread' = [thread EXCEPT ![t].pc = n]
    /\ UNCHANGED lock
    /\ UNCHANGED <<decoderVars, futureVars, adapterVars, rangeVars>>

LockNext ==
    \/ \E t \in LockThreads : LockAcquire(t)
    \/ \E t \in LockThreads : LockRelease(t)
    \/ \E t \in LockThreads : LockBranch(t)

LockSpec == LockInit /\ [][LockNext]_vars

\* ------------------------------------------ the decoder adapter by itself
\* A call of extract_frame_window_hw_rgba or of extract_frame_hw_rgba on a
\* video of some length.  A frame is held by its number in the video, the
\* buffer of generate_empty_frame by EmptyRGBA.
MaxVideo == 5        \* frames of the longest video
MaxStart == 3        \* largest start_frame or target_frame asked for
MaxSpan == 2         \* end_frame is at most start_frame + MaxSpan
EmptyRGBA == -1

\* what ffmpeg writes for trim=start_frame=s:end_frame=e on a video of
\* video_len frames: the frames s <= n < e that the video has, in order
\* (command.rs:24-27)
ffmpeg_stdout(video_len, start_frame, end_frame) ==
    [k \in 1..Max(0, Min(end_frame, video_len) - start_frame) |-> start_frame + k - 1]

\* extract_frames_rgba: the frames kept of those read from ffmpeg's stdout
\* (command.rs:14-16, 61-81)
frames_read(start_frame, end_frame, stdout) ==
    IF end_frame < start_frame THEN <<>>
    ELSE LET max_frames == end_frame - start_frame + 1
         IN  SubSeq(stdout, 1, Min(Len(stdout), max_frames))

\* extract_frames_rgba returns Ok: the early return, or ffmpeg did not fail
frames_ok(start_frame, end_frame, fails) == end_frame < start_frame \/ ~fails

\* the end handed to extract_frames_rgba (hw_decoder.rs:11)
end_exclusive(end_frame) == end_frame + 1

\* the pairs extract_frame_window_hw_rgba returns for the frames extracted
\* (hw_decoder.rs:32-44)
hw_results_bare(start_frame, extracted) ==
    [k \in 1..Len(extracted) |-> <<start_frame + (k - 1), extracted[k]>>]
hw_results(start_frame, extracted) ==
    IF extracted = <<>> THEN << <<start_frame, EmptyRGBA>> >>
    ELSE [k \in 1..Len(extracted) |-> <<start_frame + (k - 1), extracted[k]>>]

\* the window extract_frame_hw_rgba asks for (hw_decoder.rs:54)
frame_window(target_frame) == <<target_frame, target_frame + 1>>

\* frames.into_iter().next() (hw_decoder.rs:55-59)
first_data(results) == IF results = <<>> THEN EmptyRGBA ELSE results[1][2]

AdapterCalls ==
    [pc : {"called"}, fn : {"extract_frame_window_hw_rgba"}, target : {0},
     start : 0..MaxStart, span : 0..MaxSpan, video : 0..MaxVideo,
     hw_fails : BOOLEAN, sw_fails : BOOLEAN,
     frames : {<<>>}, results : {<<>>}, data : {EmptyRGBA}]
    \cup
    [pc : {"called"}, fn : {"extract_frame_hw_rgba"}, target : 0..MaxStart,
     start : {0}, span : {0}, video : 0..MaxVideo,
     hw_fails : BOOLEAN, sw_fails : BOOLEAN,
     frames : {<<>>}, results : {<<>>}, data : {EmptyRGBA}]

AdapterInit ==
    /\ DecoderIdle
    /\ FutureIdle
    /\ LockIdle
    /\ RangeIdle
    /\ adapter \in AdapterCalls

AdapterEnd(a) == a.start + a.span

\* extract_frame_hw_rgba calls extract_frame_window_hw_rgba (hw_decoder.rs:53-54)
AdapterFrame ==
    /\ adapter.pc = "called"
    /\ adapter.fn = "extract_frame_hw_rgba"
    /\ adapter' = [adapter EXCEPT !.pc = "window",
                                  !.start = frame_window(adapter.target)[1],
                                  !.span = frame_window(adapter.target)[2]
                                           - frame_window(adapter.target)[1]]
    /\ UNCHANGED <<decoderVars, futureVars, lockVars, rangeVars>>

\* extract_frame_window_hw_rgba called from outside (decoder.rs:205)
AdapterWindow ==
    /\ adapter.pc = "called"
    /\ adapter.fn = "extract_frame_window_hw_rgba"
    /\ adapter' = [adapter EXCEPT !.pc = "window"]
    /\ UNCHANGED <<decoderVars, futureVars, lockVars, rangeVars>>

\* extract_frames_rgba with hwaccel, and without on Err (hw_decoder.rs:12-30)
AdapterExtract ==
    /\ adapter.pc = "window"
    /\ LET s == adapter.start
           e == end_exclusive(AdapterEnd(adapter))
           stdout == ffmpeg_stdout(adapter.video, s, e)
           ok == frames_ok(s, e, adapter.hw_fails) \/ frames_ok(s, e, adapter.sw_fails)
       IN  adapter' = IF ok
                      THEN [adapter EXCEPT !.pc = "extracted",
                                           !.frames = frames_read(s, e, stdout)]
                      ELSE [adapter EXCEPT !.pc = "failed"]
    /\ UNCHANGED <<decoderVars, futureVars, lockVars, rangeVars>>

\* the empty result is replaced, or the frames are numbered (hw_decoder.rs:32-44)
AdapterResults ==
    /\ adapter.pc = "extracted"
    /\ adapter' = [adapter EXCEPT
                      !.pc = IF adapter.fn = "extract_frame_hw_rgba" THEN "first"
                             ELSE "returned",
                      !.results = hw_results(adapter.start, adapter.frames)]
    /\ UNCHANGED <<decoderVars, futureVars, lockVars, rangeVars>>

\* extract_frame_hw_rgba returns the data of the first pair (hw_decoder.rs:55-59)
AdapterFirst ==
    /\ adapter.pc = "first"
    /\ adapter' = [adapter EXCEPT !.pc = "returned", !.data = first_data(adapter.results)]
    /\ UNCHANGED <<decoderVars, futureVars, lockVars, rangeVars>>

AdapterNext ==
    \/ AdapterFrame
    \/ AdapterWindow
    \/ AdapterExtract
    \/ AdapterResults
    \/ AdapterFirst

AdapterSpec == AdapterInit /\ [][AdapterNext]_vars

\* ------------------------------------ Phase A on the whole of the u32 range
\* frame_index is a u32.  A u32 is held by its representative r in
\* (-2^31, 2^31): a negative r stands for 2^32 + r, so the indices just below
\* 2^32 are -1, -2, ...; the order of the code is the unsigned one (ULt).
MaxNear == 3         \* indices looked at on either side of 2^32 - DECODE_CHUNK and of 0

\* a + b in u32 for b >= 0: the representative of the wrapped sum, and whether
\* the sum went past 2^32 - 1
U32Add(a, b) == a + b
U32Overflows(a, b) == a < 0 /\ a + b >= 0

\* the indices of the Range a..b (empty unless a < b)
U32Range(a, b) == IF ULt(a, b) THEN a..(b - 1) ELSE {}

\* frame_index + DECODE_CHUNK (decoder.rs:187): a build with overflow checks
\* panics where the sum overflows, a build without them wraps
RangeBound(frame_index, overflow_checks) ==
    IF U32Overflows(frame_index, DECODE_CHUNK) /\ overflow_checks THEN "panic"
    ELSE "ok"

\* the loop over frame_index..end (decoder.rs:186-192)
LastFrameIn(df, frame_index, end) ==
    LET range == U32Range(frame_index, end)
        hit == {f \in range : f \in df}
        upto == IF hit = {} THEN range
                ELSE {f \in range : \A g \in hit : ULt(f, g)}
    IN  IF upto = {} THEN frame_index
        ELSE CHOOSE f \in upto : \A g \in upto : ~ULt(f, g)

RangeCalls ==
    {[pc |-> "called", frame_index |-> i, df |-> df, overflow_checks |-> oc,
      end |-> 0, overflowed |-> FALSE, last_frame |-> 0, claimed |-> {}] :
        i \in (-(DECODE_CHUNK + MaxNear)..(-1)) \cup (0..MaxNear),
        df \in {{}} \cup {{j} : j \in 0..MaxNear}
               \cup {{-j} : j \in 1..(DECODE_CHUNK + MaxNear)},
        oc \in BOOLEAN}

RangeInit ==
    /\ DecoderIdle
    /\ FutureIdle
    /\ LockIdle
    /\ AdapterIdle
    /\ phase_a \in RangeCalls

\* decoding_frames.contains(&frame_index): nothing to claim (decoder.rs:185)
RangeSkip ==
    /\ phase_a.pc = "called"
    /\ Claimed(phase_a.df, phase_a.frame_index)
    /\ phase_a' = [phase_a EXCEPT !.pc = "skipped"]
    /\ UNCHANGED <<decoderVars, futureVars, lockVars, adapterVars>>

\* the bound of the Range is computed (decoder.rs:187)
RangeEnd ==
    /\ phase_a.pc = "called"
    /\ ~Claimed(phase_a.df, phase_a.frame_index)
    /\ phase_a' =
          IF RangeBound(phase_a.frame_index, phase_a.overflow_checks) = "panic"
          THEN [phase_a EXCEPT !.pc = "panicked", !.overflowed = TRUE]
          ELSE [phase_a EXCEPT !.pc = "bound",
                               !.end = U32Add(phase_a.frame_index, DECODE_CHUNK),
                               !.overflowed = U32Overflows(phase_a.frame_index,
                                                           DECODE_CHUNK)]
    /\ UNCHANGED <<decoderVars, futureVars, lockVars, adapterVars>>

\* last_frame is found and frame_index..=last_frame is claimed (decoder.rs:188-196)
RangeClaim ==
    /\ phase_a.pc = "bound"
    /\ LET last_frame == LastFrameIn(phase_a.df, phase_a.frame_index, phase_a.end)
       IN  phase_a' = [phase_a EXCEPT
                          !.pc = "claimed",
                          !.last_frame = last_frame,
                          !.claimed = phase_a.frame_index..last_frame,
                          !.df = ClaimedRange(phase_a.df, phase_a.frame_index, last_frame)]
    /\ UNCHANGED <<decoderVars, futureVars, lockVars, adapterVars>>

RangeNext ==
    \/ RangeSkip
    \/ RangeEnd
    \/ RangeClaim

RangeSpec == RangeInit /\ [][RangeNext]_vars

\* ====================================================================
\* The claims
\* ====================================================================

\* C1: every get_frame call eventually returns a buffer, whatever the adapter
\* does (frames, fewer frames, an empty result, an error), provided every
\* adapter call returns and requests stop arriving.
C1_GetFrameReturns ==
    \A c \in Callers : (caller[c].pc = "A") ~> (caller[c].pc = "done")

\* C2: the claimed ranges of all window-decode tasks ever scheduled on one
\* decoder are pairwise disjoint.
C2_SingleFlight ==
    \A d \in Dec : \A t1, t2 \in TaskIds(d) :
        t1 # t2 => \/ tasks[d][t1].last < tasks[d][t2].start
                   \/ tasks[d][t2].last < tasks[d][t1].start

\* two window tasks of one decoder under way at the same time
C2_Witness ==
    \E d \in Dec : \E t1, t2 \in TaskIds(d) :
        /\ t1 # t2
        /\ tasks[d][t1].pc = "decode" /\ tasks[d][t2].pc = "decode"
        /\ tasks[d][t2].last + 1 = tasks[d][t1].start

\* two handlers in calls for the same index of the same decoder, one begun
\* while the other was under way
SameCall(c1, c2) ==
    /\ c1 # c2
    /\ caller[c1].pc \notin {"idle", "A"} /\ caller[c2].pc \notin {"idle", "A"}
    /\ caller[c1].dec = caller[c2].dec /\ caller[c1].idx = caller[c2].idx
    /\ c2 \in caller[c1].ov \/ c1 \in caller[c2].ov

Covering(d, i) == {t \in TaskIds(d) : tasks[d][t].start <= i /\ i <= tasks[d][t].last}

Awaiting(c) == caller[c].pc \in {"C", "get", "await", "timedout", "stall", "D", "D_rm"}

\* C3 as stated: two concurrent get_frame(i) calls on an index without prior
\* activity schedule exactly one window decode and both return the identical
\* reference-counted buffer.
C3_SameBuffer ==
    \A c1, c2 \in Callers :
        (SameCall(c1, c2) /\ nreq = 2 /\ caller[c1].pc = "done" /\ caller[c2].pc = "done")
        => /\ Cardinality(Covering(caller[c1].dec, caller[c1].idx)) = 1
           /\ caller[c1].frame = caller[c2].frame

\* C3 as amended: two concurrent get_frame(i) calls on one decoder have
\* exactly one window decode covering i scheduled, at most one of them awaits
\* the shared handle, and they never return the identical buffer: one of the
\* two returns a buffer of its own from the single-frame re-decode.
C3_DistinctBuffers ==
    \A c1, c2 \in Callers :
        SameCall(c1, c2)
        => /\ Cardinality(Covering(caller[c1].dec, caller[c1].idx)) = 1
           /\ ~(Awaiting(c1) /\ Awaiting(c2))
           /\ (caller[c1].pc = "done" /\ caller[c2].pc = "done")
              => /\ caller[c1].frame # caller[c2].frame
                 /\ "redecode" \in {caller[c1].frame.kind, caller[c2].frame.kind}

\* both calls have returned, one the payload of the window decode and the
\* other a re-decoded buffer
C3_Witness ==
    \E c1, c2 \in Callers :
        /\ SameCall(c1, c2)
        /\ caller[c1].pc = "done" /\ caller[c2].pc = "done"
        /\ caller[c1].frame.kind = "window" /\ caller[c2].frame.kind = "redecode"

\* C4: the value of a handle is set at most once, by the first complete(),
\* and every waiter observes that value, whether its get() came before or
\* after that complete().
C4_ResolvedOnce ==
    /\ Cardinality({p \in Completers : completer[p].stored}) <= 1
    /\ \A p \in Completers : completer[p].stored => fut.value = ValueOf(p)
    /\ \A w \in Waiters : waiter[w].pc = "done" => waiter[w].got = fut.value

\* both complete() calls are over, one waiter was notified and another found
\* the value with a later get()
C4_Witness ==
    /\ \A p \in Completers : completer[p].pc = "done"
    /\ \E w1, w2 \in Waiters : waiter[w1].via = "notified" /\ waiter[w2].via = "get"

\* C5: a window task whose adapter call returned an error still decrements
\* running_decode_tasks (and resolves no handle), so that its waiters reach
\* stall recovery.
C5_ErrorDecrements ==
    \A d \in Dec : \A t \in TaskIds(d) :
        tasks[d][t].err => tasks[d][t].pc \in {"dec", "finished"}

\* C6: whenever no window task is between its fetch_add and its complete()
\* (and no delivery between its fetch_sub and its remove), ENTIRE_CACHE_SIZE
\* is the sum of the payload lengths of the resolved frames in the frames
\* maps, with or without the delivered index-0 entries that stay in the map.
Resolved(d) == {i \in Idx : frames[d][i] # 0 /\ is_completed(handles[d][i][frames[d][i]])}
ResolvedBytes == FrameMiB * Cardinality({<<d, i>> \in Dec \X Idx : i \in Resolved(d)})
DeliveredZero(d) ==
    /\ 0 \in Resolved(d)
    /\ frame_states[d][0] = "Wait"
    /\ \A c \in Callers : ~(caller[c].dec = d /\ caller[c].idx = 0 /\ Awaiting(c))
DeliveredZeroBytes == FrameMiB * Cardinality({d \in Dec : DeliveredZero(d)})
Settled ==
    /\ \A d \in Dec : \A t \in TaskIds(d) : tasks[d][t].pc # "complete"
    /\ \A c \in Callers : caller[c].pc # "D_rm"

C6_Accounting ==
    Settled => ENTIRE_CACHE_SIZE \in {ResolvedBytes, ResolvedBytes - DeliveredZeroBytes}

\* C7: once requests have stopped and all window decodes have finished, the
\* sweeper brings ENTIRE_CACHE_SIZE down to MAX_CACHE_SIZE or below: where
\* nothing is under way and no sweep can remove anything more, the bound
\* holds.
Quiescent ==
    /\ \A c \in Callers : caller[c].pc \in {"idle", "done"}
    /\ \A d \in Dec : \A t \in TaskIds(d) : tasks[d][t].pc = "finished"
SweptOut ==
    \A d \in Dec :
        /\ gc[d].pc # "sweep"
        /\ \A i \in Keys(d) : ~Evictable(handles[d][i][frames[d][i]], frame_states[d][i])

C7_BoundReached ==
    (Quiescent /\ SweptOut) => ~ULt(MAX_CACHE_SIZE, ENTIRE_CACHE_SIZE)

\* C8: a step of the sweeper removes a handle from the frames map only if the
\* handle is resolved and the state of its index is None.
C8_EvictsOnlyResolvedNone ==
    [][\A d \in Dec : \A i \in Idx :
          (gc[d].pc = "sweep" /\ frames[d][i] # 0 /\ frames'[d][i] = 0)
          => /\ is_completed(handles[d][i][frames[d][i]])
             /\ frame_states[d][i] = "None"]_vars

\* the sweeper has evicted a frame while it left an awaited one in the map
C8_Witness ==
    \E d \in Dec : \E i, j \in Idx :
        /\ frame_states[d][i] = "Drop" /\ frames[d][i] = 0
        /\ frame_states[d][j] = "Wait" /\ frames[d][j] # 0
        /\ gc[d].pc = "sleep"

\* C9: at the moment clear() returns, ENTIRE_CACHE_SIZE is 0 and the registry
\* map is empty, also with cached_decoder and get_frame calls beside it.
C9_EmptyAtReturn ==
    cleared.n > 0 => cleared.cur = 0 /\ cleared.map = {}

\* C10: clear() gets past its poll loop, and so returns, only when every
\* window task spawned before the swap on a decoder it removed has finished
\* (has decremented running_decode_tasks).
C10_DrainedBeforeReturn ==
    clr.pc = "store" =>
        \A d \in clr.removed : \A t \in 1..clr.pre[d] : tasks[d][t].pc = "finished"

\* clear() is about to return after a window task that was under way at the
\* swap
C10_Witness ==
    clr.pc = "store" /\ \E d \in clr.removed : clr.pending[d] # {}

\* C11: clear() completes once every adapter call has returned, with frames
\* or with an error: where every window task of the removed decoders has
\* ended, the poll loop finds every counter at zero.
Ended(task) == task.pc \in {"finished", "panicked"}

C11_ClearCompletes ==
    (clr.pc = "poll" /\ \A d \in clr.removed : \A t \in TaskIds(d) : Ended(tasks[d][t]))
    => Drained(clr.removed)

\* c2's call followed c1's: neither was under way when the other began
Sequential(c1, c2) ==
    /\ c1 # c2
    /\ caller[c1].pc = "done" /\ caller[c2].pc = "done"
    /\ caller[c1].dec = caller[c2].dec /\ caller[c1].idx = caller[c2].idx
    /\ c2 \notin caller[c1].ov /\ c1 \notin caller[c2].ov

\* C12: once the handle of index 0 has been resolved and delivered, a later
\* get_frame(0) on the same decoder returns the identical cached buffer, with no
\* re-decode, as long as index 0 is still in the frames map.
C12_IndexZeroRetained ==
    \A c1, c2 \in Callers :
        (/\ Sequential(c1, c2)
         /\ caller[c1].idx = 0
         /\ caller[c1].frame.kind = "window"
         /\ frames[caller[c1].dec][0] # 0)
        => caller[c2].frame = caller[c1].frame

\* C13 as stated: a get_frame(i) call that finds the prior state of i Wait or
\* Drop and returns the re-decoded frame has changed neither decoding_frames
\* nor running_decode_tasks (nor the frames map, nor ENTIRE_CACHE_SIZE).
C13_NothingScheduled ==
    \A c \in Callers :
        (caller[c].pc = "done" /\ caller[c].frame.kind = "redecode")
        => ~caller[c].claimed

\* C13 as amended: the re-decode of Phase B changes neither the frames map, nor
\* decoding_frames, nor running_decode_tasks, nor ENTIRE_CACHE_SIZE, and so
\* does Phase A of a call that begins when the state of its index is already
\* Wait or Drop; a call whose Phase A ran while the state was still None may
\* have claimed a range and spawned a window task before it re-decodes.
C13_RedecodeLeavesCache ==
    [][\A c \in Callers :
          (\/ /\ caller[c].pc = "A" /\ caller'[c].pc = "B"
              /\ frame_states[caller[c].dec][caller[c].idx] \in {"Wait", "Drop"}
           \/ /\ caller[c].pc = "B" /\ caller'[c].pc = "done")
          => UNCHANGED <<frames, decoding_frames, running_decode_tasks,
                         ENTIRE_CACHE_SIZE, tasks>>]_vars

\* a call that began with the state of its index already Wait or Drop has
\* returned its re-decoded frame, without a claim of its own
C13_Witness ==
    \E c1, c2 \in Callers :
        /\ Sequential(c1, c2)
        /\ caller[c2].frame.kind = "redecode" /\ ~caller[c2].claimed
        /\ caller[c1].frame.kind = "window"

\* C14 as stated: when a waiter on index i times out with running_decode_tasks
\* at zero, get_frame(i) returns the payload of the largest j < i that has a
\* resolved handle in the frames map at that time, and a fresh empty frame if
\* there is none.
C14_NearestAtTimeout ==
    \A c \in Callers :
        (caller[c].pc \in {"D", "D_rm", "done"} /\ caller[c].snap # NoValue)
        => caller[c].frame = caller[c].snap

\* C14 as amended: stall recovery walks down from i - 1, each probe of the
\* frames map under a read lock of its own, and returns the payload of the
\* first index whose handle is resolved when it is probed, a fresh empty
\* frame when the walk has passed index 0; what it returns is a payload
\* found below i or the empty frame.
C14_WalkBack ==
    [][\A c \in Callers :
          (/\ caller[c].pc = "stall"
           /\ caller'[c].pc # "stall" \/ caller'[c].w # caller[c].w)
          => LET d == caller[c].dec
                 j == caller[c].w - 1
                 resolved == /\ frames[d][j] # 0
                             /\ handles[d][j][frames[d][j]].value # NoValue
             IN  /\ j < caller[c].idx
                 /\ resolved => caller'[c].frame = handles[d][j][frames[d][j]].value
                 /\ (~resolved /\ j > 0) => (caller'[c].pc = "stall" /\ caller'[c].w = j)
                 /\ (~resolved /\ j = 0) => caller'[c].frame = EmptyFrame(c)]_vars

\* stall recovery has handed back the frame of an index below the one asked for
C14_Witness ==
    \E c \in Callers :
        /\ caller[c].pc = "done" /\ caller[c].snap # NoValue
        /\ caller[c].frame.kind = "window" /\ caller[c].frame.idx < caller[c].idx

\* C15: with no clear() between them, all cached_decoder calls for one key,
\* in any interleaving, see one CachedDecoder constructed and one sweeper
\* spawned for it, and each call returns a clone of that one decoder.
C15_SingleConstruction ==
    /\ ndecoders = (IF nreq = 0 THEN 0 ELSE 1)
    /\ map = 1..ndecoders
    /\ Cardinality({d \in Dec : gc[d].pc # "off"}) = ndecoders
    /\ \A c \in Callers : caller[c].pc # "idle" => caller[c].dec \in map

\* two handlers hold clones of the one decoder, both inside get_frame
C15_Witness ==
    /\ ndecoders = 1
    /\ \A c \in Callers : c \in InFlight /\ caller[c].dec = 1

\* C16: set_max_cache_size(b) stores max(b, 1 MiB) and leaves
\* ENTIRE_CACHE_SIZE alone, so MAX_CACHE_SIZE, 4 GiB at first, is 1 MiB or
\* more in every reachable state.
C16_CapacityFloor ==
    /\ [](MAX_CACHE_SIZE >= MinCacheMiB)
    /\ [](nset = 0 => MAX_CACHE_SIZE = DefaultMaxCacheMiB)
    /\ [][nset' # nset =>
            /\ \E b \in SetMaxArgs :
                  MAX_CACHE_SIZE' = (IF b > MinCacheMiB THEN b ELSE MinCacheMiB)
            /\ ENTIRE_CACHE_SIZE' = ENTIRE_CACHE_SIZE]_vars

\* a capacity below the floor was asked for while frames were cached
C16_Witness ==
    nset > 0 /\ MAX_CACHE_SIZE = MinCacheMiB /\ ENTIRE_CACHE_SIZE > 0

\* C17 as stated, its second half: a get_frame(j) call whose index was already
\* claimed by the window of a lower index schedules nothing and is served from
\* the handle of j resolved by that window.
C17_ServedByWindow ==
    \A c \in Callers :
        (/\ caller[c].pc = "done" /\ ~caller[c].claimed
         /\ \E t \in Covering(caller[c].dec, caller[c].idx) :
               tasks[caller[c].dec][t].start < caller[c].idx)
        => /\ caller[c].frame.kind = "window"
           /\ caller[c].frame.idx = caller[c].idx

\* C17 as amended: a get_frame(j) call whose index j is already in
\* decoding_frames schedules no window decode and leaves decoding_frames and
\* running_decode_tasks unchanged; what it returns is the payload published for
\* j by the one window that covers j, or a re-decoded frame, or what stall
\* recovery finds: the payload of a lower index or the empty frame.
C17_NoRedundantScheduling ==
    /\ [][\A c \in Callers :
             (/\ caller[c].pc = "A" /\ caller'[c].pc = "B"
              /\ caller[c].idx \in decoding_frames[caller[c].dec])
             => /\ UNCHANGED <<decoding_frames, running_decode_tasks, tasks>>
                /\ ~caller'[c].claimed]_vars
    /\ [](\A c \in Callers :
             (caller[c].pc = "done" /\ ~caller[c].claimed)
             => \/ caller[c].frame.kind \in {"redecode", "empty"}
                \/ /\ caller[c].frame.kind = "window"
                   /\ caller[c].frame.d = caller[c].dec
                   /\ caller[c].frame.idx < caller[c].idx
                \/ /\ caller[c].frame.kind = "window"
                   /\ caller[c].frame.d = caller[c].dec
                   /\ caller[c].frame.idx = caller[c].idx
                   /\ Covering(caller[c].dec, caller[c].idx) = {caller[c].frame.t})

\* after get_frame(i) claimed its window, a call for a higher index of the
\* window scheduled nothing and was served the frame the window published
C17_Witness ==
    \E c \in Callers : \E d \in Dec : \E t \in TaskIds(d) :
        /\ caller[c].pc = "done" /\ caller[c].dec = d /\ ~caller[c].claimed
        /\ tasks[d][t].start < caller[c].idx
        /\ caller[c].frame = WindowFrame(d, t, caller[c].idx)
        /\ Len(tasks[d]) = 1

\* C18: a get_frame(i) call that finds i not in decoding_frames inserts exactly
\* the indices [i, j), j the smallest index of [i+1, i+K) already in the set or
\* i+K if there is none, increments running_decode_tasks by 1 and spawns the
\* adapter call for the window (i, j-1).
ClaimEnd(df, i) ==
    LET taken == {x \in (i + 1)..(i + DECODE_CHUNK - 1) : x \in df}
    IN  IF taken = {} THEN i + DECODE_CHUNK
        ELSE CHOOSE x \in taken : \A y \in taken : x <= y

C18_ClaimRange ==
    [][\A c \in Callers :
          (/\ caller[c].pc = "A" /\ caller'[c].pc = "B"
           /\ caller[c].idx \notin decoding_frames[caller[c].dec])
          => LET d == caller[c].dec
                 i == caller[c].idx
                 j == ClaimEnd(decoding_frames[d], i)
             IN  /\ decoding_frames'[d] = decoding_frames[d] \cup {x \in i..(j - 1) : TRUE}
                 /\ running_decode_tasks'[d] = running_decode_tasks[d] + 1
                 /\ Len(tasks'[d]) = Len(tasks[d]) + 1
                 /\ tasks'[d][Len(tasks'[d])].start = i
                 /\ tasks'[d][Len(tasks'[d])].last = j - 1
                 /\ tasks'[d][Len(tasks'[d])].pc = "decode"]_vars

\* one decoder with a full window of K indices and a window cut short by it
C18_Witness ==
    \E d \in Dec : \E t1, t2 \in TaskIds(d) :
        /\ tasks[d][t1].last - tasks[d][t1].start + 1 = DECODE_CHUNK
        /\ tasks[d][t2].last - tasks[d][t2].start + 1 < DECODE_CHUNK
        /\ tasks[d][t2].last + 1 = tasks[d][t1].start

\* C19: Phase D of a get_frame(i) call with i # 0 subtracts the length of the
\* returned payload from ENTIRE_CACHE_SIZE and removes the handle of i from the
\* frames map before the call returns; a call with i = 0 returns with the
\* frames map and ENTIRE_CACHE_SIZE as they were.
C19_DeliverAndRelease ==
    /\ [](\A c \in Callers : caller[c].pc \in {"D", "D_rm"} => caller[c].idx # 0)
    /\ [][\A c \in Callers :
             /\ (caller[c].pc = "D" /\ caller'[c].pc # "D")
                => /\ ENTIRE_CACHE_SIZE' = ENTIRE_CACHE_SIZE - FrameMiB
                   /\ caller'[c].pc = "D_rm" /\ caller'[c].frame = caller[c].frame
             /\ (caller[c].pc = "D_rm" /\ caller'[c].pc # "D_rm")
                => /\ frames'[caller[c].dec][caller[c].idx] = 0
                   /\ caller'[c].pc = "done" /\ caller'[c].frame = caller[c].frame
                   /\ ENTIRE_CACHE_SIZE' = ENTIRE_CACHE_SIZE
             /\ (/\ caller[c].pc \in {"get", "await", "timedout", "stall"}
                 /\ caller'[c].pc = "done")
                => /\ caller[c].idx = 0
                   /\ UNCHANGED <<frames, ENTIRE_CACHE_SIZE>>]_vars

\* one call has returned frame 0 and left it in the map, another has returned
\* a frame of a higher index and released it
C19_Witness ==
    \E c1, c2 \in Callers :
        /\ caller[c1].pc = "done" /\ caller[c1].idx = 0
        /\ caller[c1].frame.kind = "window" /\ frames[caller[c1].dec][0] # 0
        /\ caller[c2].pc = "done" /\ caller[c2].idx # 0
        /\ caller[c2].frame.kind = "window" /\ frames[caller[c2].dec][caller[c2].idx] = 0

\* C20: after a successful adapter call the window task resolves, for every
\* returned pair, the handle of the pair's index in the frames map (created by
\* the task, or the one a waiter inserted first) with that pair's frame, adds
\* the frame's length to ENTIRE_CACHE_SIZE once per pair, and decrements
\* running_decode_tasks only after all pairs are published.
Published(task) ==
    CASE task.pc \in {"decode", "panicked"} -> 0
      [] task.pc = "add" -> task.k
      [] task.pc = "complete" -> task.k
      [] task.pc = "notify" -> task.k + 1
      [] OTHER -> task.n

C20_WindowPublication ==
    /\ [](\A d \in Dec : \A t \in TaskIds(d) :
             LET task == tasks[d][t]
             IN  /\ \A k \in 0..(Published(task) - 1) :
                       LET i == task.start + k
                       IN  /\ Len(handles[d][i]) >= task.futs[k + 1]
                           /\ handles[d][i][task.futs[k + 1]].value = WindowFrame(d, t, i)
                 /\ task.pc \in {"add", "complete"}
                    => frames[d][task.start + task.k] = task.futs[task.k + 1]
                 /\ task.pc # "finished" => running_decode_tasks[d] > 0)
    /\ [][\A d \in Dec : \A t \in TaskIds(d) :
             /\ (t \in DOMAIN tasks'[d] /\ tasks[d][t].pc = "add" /\ tasks'[d][t].pc # "add")
                => /\ tasks'[d][t].pc = "complete"
                   /\ ENTIRE_CACHE_SIZE' = ENTIRE_CACHE_SIZE + FrameMiB
             /\ (t \in DOMAIN tasks'[d] /\ tasks[d][t].pc # "add" /\ tasks'[d][t].pc = "add")
                => tasks'[d][t].k = (IF tasks[d][t].pc = "decode" THEN 0
                                     ELSE tasks[d][t].k + 1)]_vars

\* a window task has published two pairs and finished, and a call for the
\* index of the second pair has returned that pair's frame
C20_Witness ==
    \E d \in Dec : \E t \in TaskIds(d) : \E c \in Callers :
        /\ tasks[d][t].pc = "finished" /\ tasks[d][t].n = 2
        /\ caller[c].dec = d /\ caller[c].idx = tasks[d][t].start + 1
        /\ caller[c].frame = WindowFrame(d, t, caller[c].idx)
        /\ caller[c].pc = "done"

\* C21: in every reachable state, an index whose frame state is Drop has no
\* handle in the frames map.
C21_DropHasNoHandle ==
    \A d \in Dec : \A i \in Idx : frame_states[d][i] = "Drop" => frames[d][i] = 0

\* the sweeper has evicted an index of a window while the window's task and a
\* call for another index of it were still at work
C21_Witness ==
    \E d \in Dec : \E i \in Idx : \E t \in TaskIds(d) : \E c \in Callers :
        /\ frame_states[d][i] = "Drop"
        /\ tasks[d][t].start <= i /\ tasks[d][t].pc # "finished"
        /\ caller[c].dec = d /\ c \in InFlight

\* C22: running_decode_tasks is never negative and equals the number of window
\* tasks scheduled and not yet completed, with frames or with an error; it is
\* zero only when every scheduled window decode has published or failed.
C22_RunCounter ==
    \A d \in Dec :
        /\ running_decode_tasks[d] >= 0
        /\ running_decode_tasks[d] =
              Cardinality({t \in TaskIds(d) : ~Ended(tasks[d][t])})

\* C23: the read of frame_states[i] and its set to Wait are one atomic step, so
\* of the get_frame(i) calls on one decoder only one ever finds the prior state
\* None and goes on to the await phase: a state that has left None never comes
\* back to it, Phase B leads on to Phase C exactly from None, and no two calls
\* for one index are in the await phase together.
C23_FrameStateOrder ==
    /\ [][\A d \in Dec : \A i \in Idx :
             frame_states[d][i] # "None" => frame_states'[d][i] # "None"]_vars
    /\ [][\A c \in Callers :
             (caller[c].pc = "B" /\ caller'[c].pc # "B")
             => /\ frame_states'[caller[c].dec][caller[c].idx] = "Wait"
                /\ caller'[c].pc = "C"
                   <=> frame_states[caller[c].dec][caller[c].idx] = "None"]_vars
    /\ [](\A c1, c2 \in Callers :
             (/\ c1 # c2 /\ caller[c1].dec = caller[c2].dec
              /\ caller[c1].idx = caller[c2].idx)
             => ~(Awaiting(c1) /\ Awaiting(c2)))

\* one call awaits the handle of an index while another call for the same
\* index, which found Wait, has returned its re-decoded frame
C23_Witness ==
    \E c1, c2 \in Callers :
        /\ c1 # c2 /\ caller[c1].dec = caller[c2].dec /\ caller[c1].idx = caller[c2].idx
        /\ caller[c1].pc = "await"
        /\ caller[c2].pc = "done" /\ caller[c2].frame.kind = "redecode"

\* C24: the state of every index starts at None; it becomes Wait only by
\* Phase B of a get_frame call for that index, and Drop only by the sweeper
\* evicting a resolved handle whose state is None; a state Wait stays Wait.
C24_FrameStateTransitions ==
    /\ [](\A d \in Dec : d > ndecoders => \A i \in Idx : frame_states[d][i] = "None")
    /\ [][\A d \in Dec : \A i \in Idx :
             /\ frame_states[d][i] = "Wait" => frame_states'[d][i] = "Wait"
             /\ (frame_states'[d][i] = "Wait" /\ frame_states[d][i] # "Wait")
                => \E c \in Callers :
                      /\ caller[c].dec = d /\ caller[c].idx = i
                      /\ caller[c].pc = "B" /\ caller'[c].pc # "B"
             /\ (frame_states'[d][i] = "Drop" /\ frame_states[d][i] # "Drop")
                => /\ frame_states[d][i] = "None"
                   /\ gc[d].pc = "sweep"
                   /\ frames[d][i] # 0 /\ frames'[d][i] = 0
                   /\ handles[d][i][frames[d][i]].value # NoValue]_vars

\* one index is Drop, evicted by the sweeper, and another is Wait, asked for
\* again after its handle left the map
C24_Witness ==
    \E d \in Dec : \E i, j \in Idx : \E c \in Callers :
        /\ frame_states[d][i] = "Drop"
        /\ frame_states[d][j] = "Wait" /\ frames[d][j] = 0
        /\ caller[c].dec = d /\ caller[c].idx = j
        /\ caller[c].pc = "done" /\ caller[c].frame.kind = "redecode"
        /\ \A o \in Callers : caller[o].idx = j => o = c

\* C25: within one sweep the evictable handles are visited in descending index
\* order: when the sweeper evicts an index, no evictable index above it is
\* still to be visited in that sweep.
C25_DescendingEviction ==
    [][\A d \in Dec : \A i \in Idx :
          (gc[d].pc = "sweep" /\ frames[d][i] # 0 /\ frames'[d][i] = 0)
          => \A j \in gc[d].todo :
                j > i => ~(/\ handles[d][j][frames[d][j]].value # NoValue
                           /\ frame_states[d][j] = "None")]_vars

C27_PinnedOnceCalled ==
    [][\A d \in Dec :
          (/\ \E c \in Callers : /\ caller[c].dec = d /\ caller[c].idx = 0
                                /\ caller[c].pc \notin {"idle", "A"}
           /\ frames[d][0] # 0)
          => frames'[d][0] = frames[d][0]]_vars

\* C27 as amended: once Phase B of a get_frame(0) call has set the state of
\* index 0 to Wait, the handle of index 0, once in the frames map, is never
\* removed again, neither by a delivery nor by a sweep.
C27_PinnedOnceWait ==
    [][\A d \in Dec :
          (frame_states[d][0] = "Wait" /\ frames[d][0] # 0)
          => frames'[d][0] = frames[d][0]]_vars

\* frame 0 has been delivered and is still in the map after a sweep that
\* evicted another frame
C27_Witness ==
    \E d \in Dec : \E i \in Idx : \E c \in Callers :
        /\ frame_states[d][0] = "Wait" /\ frames[d][0] # 0
        /\ caller[c].dec = d /\ caller[c].idx = 0 /\ caller[c].pc = "done"
        /\ caller[c].frame.kind = "window"
        /\ frame_states[d][i] = "Drop"
        /\ gc[d].pc = "sleep"

\* C28: no step removes an index from the decoding_frames of a decoder.
C28_ClaimsOnlyGrow ==
    [][\A d \in Dec : decoding_frames[d] \subseteq decoding_frames'[d]]_vars

\* two ranges are claimed on a decoder, one window task has finished, a frame
\* was delivered and released, another evicted
C28_Witness ==
    \E d \in Dec : \E i \in Idx : \E c \in Callers :
        /\ Len(tasks[d]) = 2
        /\ Cardinality(decoding_frames[d]) > DECODE_CHUNK
        /\ \E t \in TaskIds(d) : tasks[d][t].pc = "finished"
        /\ frame_states[d][i] = "Drop"
        /\ caller[c].dec = d /\ caller[c].pc = "done" /\ caller[c].idx # 0
        /\ caller[c].frame.kind = "window"

\* C29: complete(v2) on a handle already resolved with v1 leaves v1 stored and
\* notifies no waiter, and every later get() or get_now() yields v1: a stored
\* value never changes.
C29_CompleteIdempotent ==
    /\ [][fut.value # NoValue => fut' = fut]_vars
    /\ [][\A p \in Completers :
             (completer[p].pc = "idle" /\ completer'[p].pc # "idle" /\ fut.value # NoValue)
             => /\ completer'[p].pc = "done" /\ completer'[p].ntf = {}
                /\ ~completer'[p].stored
                /\ waiter' = waiter]_vars
    /\ [][\A w \in Waiters :
             (waiter[w].pc = "idle" /\ waiter'[w].pc = "done")
             => waiter'[w].got = fut.value /\ fut.value # NoValue]_vars

\* a second complete() has found the handle resolved, and waiters have read
\* the value both with get() and with get_now()
C29_Witness ==
    /\ \E p, q \in Completers :
          /\ completer[p].stored /\ completer[p].pc = "done"
          /\ ~completer[q].stored /\ completer[q].pc = "done"
          /\ fut.value = ValueOf(p)
    /\ \E w1, w2 \in Waiters : waiter[w1].via = "get" /\ waiter[w2].via = "get_now"

\* C30: a get() either finds the stored value or has its completer in the
\* pending list before the completing call takes the list: a waiter that
\* awaits is in the pending list of the unresolved handle or among the
\* completers a complete() call is notifying, of one such call only, and it
\* is completed with the stored value; when the complete() call that stored
\* the value has ended, no waiter awaits.
C30_NoLostWakeup ==
    /\ \A w \in Waiters :
          waiter[w].pc = "await"
          => \/ fut.value = NoValue /\ w \in fut.completers
             \/ Cardinality({p \in Completers : w \in completer[p].ntf}) = 1
    /\ \A w \in Waiters : waiter[w].pc = "done" => waiter[w].got = fut.value
    /\ (\E p \in Completers : completer[p].stored /\ completer[p].pc = "done")
       => \A w \in Waiters : waiter[w].pc # "await"

\* two waiters registered before the value was stored and both are notified,
\* a third called get() afterwards
C30_Witness ==
    \E w1, w2, w3 \in Waiters :
        /\ w1 # w2
        /\ waiter[w1].via = "notified" /\ waiter[w2].via = "notified"
        /\ waiter[w3].via = "get"

\* C31: the frames, frame_states and decoding_frames locks (and the lock of a
\* handle) are never taken nested in a cycle: a task that asks for a lock
\* holds only locks that come before it in the one order decoding_frames,
\* frames, frame_states, value, and never does every task wait for a lock.
LockRank(l) ==
    CASE l = "decoding_frames" -> 0
      [] l = "frames" -> 1
      [] l = "frame_states" -> 2
      [] l = "value" -> 3

Blocked(t) == OpAt(t).op = "acq" /\ ~LockFree(OpAt(t).l, OpAt(t).m)

C31_NoLockCycle ==
    /\ \E t \in LockThreads : ~Blocked(t)
    /\ \A t \in LockThreads :
          OpAt(t).op = "acq" => \A h \in Held(t) : LockRank(h) < LockRank(OpAt(t).l)

\* the sweeper holds frames and frame_states, one handler waits for frames,
\* the other for frame_states, and the window task waits for frames
C31_Witness ==
    /\ Held("gc") = {"frames", "frame_states"}
    /\ Blocked("c1") /\ OpAt("c1").l = "frames"
    /\ Blocked("c2") /\ OpAt("c2").l = "frame_states"
    /\ Blocked("task")

\* C32: the re-decode of Phase B, extract_frame_hw_rgba(i), asks the window
\* adapter for the one-frame window [i, i], and returns the payload of
\* frame i.
C32_SingleFrameWindow ==
    (adapter.fn = "extract_frame_hw_rgba" /\ adapter.pc # "called") =>
        /\ adapter.start = adapter.target
        /\ AdapterEnd(adapter) = adapter.target
        /\ (adapter.pc = "returned" /\ adapter.target < adapter.video)
               => adapter.data = adapter.target

\* C33: when the extraction succeeds with no frame, the window adapter
\* returns the one pair (start, empty frame); else it returns the k frames
\* extracted, in order, under the indices start, start + 1, ..., start + k - 1.
C33_EmptySubstitution ==
    (adapter.pc \in {"first", "returned"}) =>
        LET k == Len(adapter.frames)
            r == adapter.results
        IN  IF k = 0
            THEN r = << <<adapter.start, EmptyRGBA>> >>
            ELSE /\ Len(r) = k
                 /\ \A j \in 1..k : r[j][1] = adapter.start + j - 1 /\ r[j][2] = adapter.frames[j]
                 /\ \A j \in 1..(k - 1) : r[j][1] < r[j + 1][1]

\* a window call past the end of a video that has frames has returned the
\* substitute pair
C33_Witness ==
    /\ adapter.fn = "extract_frame_window_hw_rgba"
    /\ adapter.pc = "returned"
    /\ adapter.frames = <<>>
    /\ adapter.video > 0
    /\ adapter.results = << <<adapter.start, EmptyRGBA>> >>

\* C34: ENTIRE_CACHE_SIZE never underflows: every fetch_sub (Phase D, also
\* after stall recovery, and the eviction of the sweeper) subtracts at most
\* the current value, so the counter never wraps around.
C34_NoUnderflow ==
    [][ENTIRE_CACHE_SIZE >= 0 => ENTIRE_CACHE_SIZE' >= 0]_vars

\* C35: a payload that a window publication added to ENTIRE_CACHE_SIZE is
\* subtracted at most once, by one eviction or by one delivery, and a payload
\* that was never added (a re-decode result, the empty frame) is never
\* subtracted: Phase D subtracts only window payloads that neither the
\* sweeper nor another call has subtracted, and the sweeper evicts only
\* payloads no call has subtracted.
SubtractedBy(c, p) ==
    caller[c].frame = p /\ caller[c].pc \in {"D_rm", "done"} /\ ~Retained(caller[c].idx)

C35_PairedDecrement ==
    [][/\ \A c \in Callers :
             (caller[c].pc = "D" /\ caller'[c].pc = "D_rm") =>
                 /\ caller[c].frame.kind = "window"
                 /\ frame_states[caller[c].frame.d][caller[c].frame.idx] # "Drop"
                 /\ \A o \in Callers \ {c} : ~SubtractedBy(o, caller[c].frame)
       /\ \A d \in Dec : \A i \in Idx :
             (gc[d].pc = "sweep" /\ frames[d][i] # 0 /\ frames'[d][i] = 0) =>
                 \A c \in Callers : ~SubtractedBy(c, get_now(handles[d][i][frames[d][i]]))]_vars

\* C36: from Phase C of a get_frame(i) call until its own Phase D, the entry
\* of the frames map for i is the handle the call holds: no sweep, no Phase D
\* or stall recovery of another call and no window publication removes or
\* replaces it, and the window task that publishes i resolves that handle.
AfterPhaseC(c) == caller[c].pc \in {"get", "await", "timedout", "stall", "D", "D_rm"}

C36_AwaitedHandleStable ==
    /\ [](\A c \in Callers :
             AfterPhaseC(c) =>
                 IF caller[c].pc \in {"D", "D_rm"}
                 THEN frames[caller[c].dec][caller[c].idx] # 0
                 ELSE frames[caller[c].dec][caller[c].idx] = caller[c].fut)
    /\ [][\A c \in Callers : \A d \in Dec : \A i \in Idx :
             (AfterPhaseC(c) /\ caller[c].dec = d /\ caller[c].idx = i
              /\ frames'[d][i] # frames[d][i])
             => caller[c].pc = "D_rm" /\ caller'[c].pc = "done"]_vars
    /\ [][\A c \in Callers : \A d \in Dec : \A t \in TaskIds(d) :
             (caller[c].pc \in {"get", "await", "timedout"} /\ caller[c].dec = d
              /\ tasks[d][t].pc = "complete" /\ tasks'[d][t].pc # "complete"
              /\ PairIdx(tasks[d][t], tasks[d][t].k) = caller[c].idx)
             => tasks[d][t].futs[tasks[d][t].k + 1] = caller[c].fut]_vars

\* a call awaits its handle while the window task that will resolve it is
\* about to, and the sweeper is at work on the same map
C36_Witness ==
    \E c \in Callers : \E d \in Dec : \E t \in TaskIds(d) :
        /\ caller[c].pc = "await" /\ caller[c].dec = d
        /\ tasks[d][t].pc = "complete"
        /\ PairIdx(tasks[d][t], tasks[d][t].k) = caller[c].idx
        /\ gc[d].pc = "sweep"

\* C37: once clear() has returned, no task of a decoder it removed from the
\* registry (its sweeper, a get_frame call on a clone, a window task) changes
\* ENTIRE_CACHE_SIZE any more.
StepOf(d) ==
    \/ gc'[d] # gc[d]
    \/ tasks'[d] # tasks[d]
    \/ \E c \in Callers : caller[c].dec = d /\ caller'[c].pc # caller[c].pc

C37_QuietAfterClear ==
    [][(cleared.n > 0 /\ cleared' = cleared /\ ENTIRE_CACHE_SIZE' # ENTIRE_CACHE_SIZE)
       => \A d \in cleared.removed : ~StepOf(d)]_vars

\* C38: every index a window task publishes into the frames map lies in the
\* range [start, last] the task claimed in decoding_frames, and the adapter
\* returns at most last - start + 1 pairs for the window.
C38_PublishedInsideClaim ==
    /\ [](\A d \in Dec : \A t \in TaskIds(d) :
             tasks[d][t].pc \notin {"decode", "panicked"} =>
                 /\ tasks[d][t].n <= tasks[d][t].last - tasks[d][t].start + 1
                 /\ \A k \in 0..(tasks[d][t].n - 1) :
                       /\ PairIdx(tasks[d][t], k) \in tasks[d][t].start..tasks[d][t].last
                       /\ PairIdx(tasks[d][t], k) \in decoding_frames[d])
    /\ [][\A d \in Dec : \A t \in TaskIds(d) : \A i \in Idx :
             (tasks[d][t].pc = "decode" /\ tasks'[d][t].pc = "add"
              /\ frames'[d][i] # frames[d][i])
             => i \in tasks[d][t].start..tasks[d][t].last]_vars

\* a task whose claim was cut to one index by a neighbouring claim has
\* published that one index, next to a frame of the neighbour
C38_Witness ==
    \E d \in Dec : \E t \in TaskIds(d) :
        /\ tasks[d][t].start = tasks[d][t].last
        /\ tasks[d][t].pc = "finished"
        /\ tasks[d][t].n = 1
        /\ frames[d][tasks[d][t].start] # 0
        /\ frames[d][tasks[d][t].start + 1] # 0

\* C39: for every u32 frame_index that is not yet claimed, also those above
\* 2^32 - 1 - 120, Phase A computes frame_index + 120 without overflow and
\* claims a non-empty range that contains frame_index.
C39_ClaimNearTop ==
    (phase_a.pc \notin {"called", "skipped"}) =>
        /\ ~phase_a.overflowed
        /\ phase_a.pc # "panicked"
        /\ phase_a.pc = "claimed" => phase_a.frame_index \in phase_a.claimed

====
